---- MODULE Spec2Model ----
(***************************************************************************)
(* A model of simplify_numbers (src/main.py): the rewriting of numerals    *)
(* and percentages in German text.                                         *)
(*                                                                         *)
(* Text is a sequence of one-character strings.  Positions are Python's    *)
(* 0-based offsets; the character at offset i is s[i + 1].                   *)
(*                                                                         *)
(* A Python float is the exact decimal value of the double,               *)
(* [ip |-> digits of the integer part, fp |-> digits of the fraction],     *)
(* without leading zeros in ip ("0" for zero) and without trailing zeros   *)
(* in fp, or Inf.  float() and the division of floats round to the nearest *)
(* double, of two equally near to the one with the even mantissa.  A       *)
(* Python int is its decimal digit string.                                 *)
(***************************************************************************)
EXTENDS Integers, Sequences, FiniteSets, TLC

VARIABLES raw_text, text, result, last_end, match, piece, pc, number, ret

vars == <<raw_text, text, result, last_end, match, piece, pc, number, ret>>

None == "None"

----------------------------------------------------------------------------
(* Characters and the string methods the source uses.                      *)

\* The decimal digits (Unicode category Nd) that \d matches and float()
\* converts, in rows of ten from the digit zero to the digit nine: the
\* ASCII digits and the rows that begin at U+06F0, U+07C0, U+09E6, U+0AE6,
\* U+0BE6, U+0CE6, U+0DE6, U+0ED0, U+1090, U+17E0, U+19D0, U+1A80, U+1A90,
\* U+1BB0, U+A8D0, U+A9D0, U+A9F0, U+ABF0.  (Python 3.11 has 47 rows more,
\* among them U+0660, U+0966 and U+FF10; a string of this module cannot
\* hold them, and no text of the model does.)
DigitRows ==
  <<
    <<"0","1","2","3","4","5","6","7","8","9">>,
    <<"۰","۱","۲","۳","۴","۵","۶","۷","۸","۹">>,
    <<"߀","߁","߂","߃","߄","߅","߆","߇","߈","߉">>,
    <<"০","১","২","৩","৪","৫","৬","৭","৮","৯">>,
    <<"૦","૧","૨","૩","૪","૫","૬","૭","૮","૯">>,
    <<"௦","௧","௨","௩","௪","௫","௬","௭","௮","௯">>,
    <<"೦","೧","೨","೩","೪","೫","೬","೭","೮","೯">>,
    <<"෦","෧","෨","෩","෪","෫","෬","෭","෮","෯">>,
    <<"໐","໑","໒","໓","໔","໕","໖","໗","໘","໙">>,
    <<"႐","႑","႒","႓","႔","႕","႖","႗","႘","႙">>,
    <<"០","១","២","៣","៤","៥","៦","៧","៨","៩">>,
    <<"᧐","᧑","᧒","᧓","᧔","᧕","᧖","᧗","᧘","᧙">>,
    <<"᪀","᪁","᪂","᪃","᪄","᪅","᪆","᪇","᪈","᪉">>,
    <<"᪐","᪑","᪒","᪓","᪔","᪕","᪖","᪗","᪘","᪙">>,
    <<"᮰","᮱","᮲","᮳","᮴","᮵","᮶","᮷","᮸","᮹">>,
    <<"꣐","꣑","꣒","꣓","꣔","꣕","꣖","꣗","꣘","꣙">>,
    <<"꧐","꧑","꧒","꧓","꧔","꧕","꧖","꧗","꧘","꧙">>,
    <<"꧰","꧱","꧲","꧳","꧴","꧵","꧶","꧷","꧸","꧹">>,
    <<"꯰","꯱","꯲","꯳","꯴","꯵","꯶","꯷","꯸","꯹">>
  >>

\* \d
Digits == UNION {{DigitRows[r][d] : d \in 1..10} : r \in 1..Len(DigitRows)}

\* [A-Za-zÄäÖöÜüß] of the numeral pattern.
Letters ==
  {"A","B","C","D","E","F","G","H","I","J","K","L","M","N","O","P","Q","R","S",
   "T","U","V","W","X","Y","Z","a","b","c","d","e","f","g","h","i","j","k","l",
   "m","n","o","p","q","r","s","t","u","v","w","x","y","z","Ä","ä","Ö","ö","Ü",
   "ü","ß"}

\* What \s, str.strip, str.split and str.isspace take for whitespace: the
\* characters U+0009 to U+000D, U+001C to U+001F, U+0020, U+0085, U+00A0 and
\* U+1680.  (Python takes U+2000 to U+200A, U+2028, U+2029, U+202F, U+205F and
\* U+3000 as well; a string of this module cannot hold them, and no text of
\* the model does.)
Whitespace ==
  {"\t", "\n", "", "\f", "\r", "", "", "", "", " ", "", " ", " "}

\* The value float() and int() give the decimal digit c.
DigitVal(c) ==
  CASE c = "0" -> 0 [] c = "1" -> 1 [] c = "2" -> 2 [] c = "3" -> 3
    [] c = "4" -> 4 [] c = "5" -> 5 [] c = "6" -> 6 [] c = "7" -> 7
    [] c = "8" -> 8 [] c = "9" -> 9
    [] OTHER -> CHOOSE d \in 0..9 :
                  \E r \in 1..Len(DigitRows) : DigitRows[r][d + 1] = c

DigitChar(d) == <<"0","1","2","3","4","5","6","7","8","9">>[d + 1]

\* c as float() reads it: a decimal digit as the ASCII digit of its value.
AsciiDigit(c) == IF c \in Digits THEN DigitChar(DigitVal(c)) ELSE c

SetMin(S) == CHOOSE x \in S : \A y \in S : x <= y

SetMax(S) == CHOOSE x \in S : \A y \in S : x >= y

\* A slice index as Python clamps it.
SliceIndex(i, n) == IF i < 0 THEN (IF n + i < 0 THEN 0 ELSE n + i)
                    ELSE (IF i > n THEN n ELSE i)

\* s[a:b]
PySlice(s, a, b) ==
  LET lo == SliceIndex(a, Len(s))
      hi == SliceIndex(b, Len(s))
  IN  IF lo >= hi THEN <<>> ELSE SubSeq(s, lo + 1, hi)

\* s[a:]
PyFrom(s, a) == PySlice(s, a, Len(s))

\* s.isspace()
isspace(s) == Len(s) > 0 /\ \A i \in 1..Len(s) : s[i] \in Whitespace

\* s.strip()
strip(s) ==
  LET ink == {i \in 1..Len(s) : s[i] \notin Whitespace}
  IN  IF ink = {} THEN <<>> ELSE SubSeq(s, SetMin(ink), SetMax(ink))

\* s.endswith(suffix)
endswith(s, suffix) ==
  /\ Len(s) >= Len(suffix)
  /\ SubSeq(s, Len(s) - Len(suffix) + 1, Len(s)) = suffix

\* s.startswith(prefix)
startswith(s, prefix) ==
  /\ Len(s) >= Len(prefix)
  /\ SubSeq(s, 1, Len(prefix)) = prefix

\* sub in s
contains(s, sub) ==
  \E i \in 0..(Len(s) - Len(sub)) : SubSeq(s, i + 1, i + Len(sub)) = sub

\* The offset at which the run of characters of S that starts at offset i ends
\* (i itself when s[i] is not in S).
RunEnd(s, i, S) ==
  LET stop == {j \in i..(Len(s) - 1) : s[j + 1] \notin S}
  IN  IF stop = {} THEN (IF i > Len(s) THEN i ELSE Len(s)) ELSE SetMin(stop)

\* The offset of the first whitespace character at or after offset i (len(s)
\* when there is none).
WordEnd(s, i) ==
  LET stop == {j \in i..(Len(s) - 1) : s[j + 1] \in Whitespace}
  IN  IF stop = {} THEN (IF i > Len(s) THEN i ELSE Len(s)) ELSE SetMin(stop)

\* s.split(): the maximal runs of non-whitespace characters, in order.
RECURSIVE split(_)
split(s) ==
  LET a == RunEnd(s, 0, Whitespace)
  IN  IF a >= Len(s) THEN <<>>
      ELSE <<PySlice(s, a, WordEnd(s, a))>> \o split(PyFrom(s, WordEnd(s, a)))

\* s.replace(a, b) for single characters, and s.replace(a, '')
replace(s, a, b) == [i \in 1..Len(s) |-> IF s[i] = a THEN b ELSE s[i]]

remove(s, a) == SelectSeq(s, LAMBDA c : c # a)

----------------------------------------------------------------------------
(* Python ints as digit strings, floats as the exact decimal value of the  *)
(* double.                                                                  *)

\* ds without its leading zeros ("0" when it holds nothing else).
StripLeadingZeros(ds) ==
  LET nz == {i \in 1..Len(ds) : ds[i] # "0"}
  IN  IF ds = <<>> THEN <<>>
      ELSE IF nz = {} THEN <<"0">>
      ELSE SubSeq(ds, SetMin(nz), Len(ds))

StripTrailingZeros(ds) ==
  LET nz == {i \in 1..Len(ds) : ds[i] # "0"}
  IN  IF nz = {} THEN <<>> ELSE SubSeq(ds, 1, SetMax(nz))

\* str(n) of a small non-negative int.
RECURSIVE IntToStr(_)
IntToStr(n) ==
  IF n < 10 THEN <<DigitChar(n)>>
  ELSE IntToStr(n \div 10) \o <<DigitChar(n % 10)>>

\* int(ds) of a short digit string.
RECURSIVE ToInt(_)
ToInt(ds) ==
  IF ds = <<>> THEN 0
  ELSE 10 * ToInt(SubSeq(ds, 1, Len(ds) - 1)) + DigitVal(ds[Len(ds)])

Zeros(k) == [i \in 1..k |-> "0"]

\* ds + 1 on a digit string.
Incr(ds) ==
  LET not9 == {i \in 1..Len(ds) : ds[i] # "9"}
      p    == IF not9 = {} THEN 0 ELSE SetMax(not9)
  IN  (IF p = 0 THEN <<"1">>
       ELSE SubSeq(ds, 1, p - 1) \o <<DigitChar(DigitVal(ds[p]) + 1)>>)
        \o Zeros(Len(ds) - p)

\* b ** k of small ints.
RECURSIVE IPow(_, _)
IPow(b, k) == IF k = 0 THEN 1 ELSE b * IPow(b, k - 1)

\* float('inf'): what float() gives for a literal too large for a double.
Inf == [ip |-> <<"i","n","f">>, fp |-> <<>>]

IsInf(x) == x = Inf

\* The decimal with the integer digits ip and the fraction digits fp.
Dec(ip, fp) ==
  [ip |-> StripLeadingZeros(IF ip = <<>> THEN <<"0">> ELSE ip),
   fp |-> StripTrailingZeros(fp)]

Zero == [ip |-> <<"0">>, fp |-> <<>>]

One == [ip |-> <<"1">>, fp |-> <<>>]

\* a < b, for finite a and b
DecLess(a, b) ==
  IF Len(a.ip) # Len(b.ip) THEN Len(a.ip) < Len(b.ip)
  ELSE LET F    == IF Len(a.fp) > Len(b.fp) THEN Len(a.fp) ELSE Len(b.fp)
           A    == a.ip \o a.fp \o Zeros(F - Len(a.fp))
           B    == b.ip \o b.fp \o Zeros(F - Len(b.fp))
           diff == {i \in 1..Len(A) : A[i] # B[i]}
       IN  diff # {} /\ DigitVal(A[SetMin(diff)]) < DigitVal(B[SetMin(diff)])

\* a + b, for finite a and b: a place takes a carry when, of the places after
\* it, the first whose digits do not add up to 9 adds up to 10 or more.
DecAdd(a, b) ==
  LET I   == IF Len(a.ip) > Len(b.ip) THEN Len(a.ip) ELSE Len(b.ip)
      F   == IF Len(a.fp) > Len(b.fp) THEN Len(a.fp) ELSE Len(b.fp)
      A   == <<"0">> \o Zeros(I - Len(a.ip)) \o a.ip \o a.fp \o Zeros(F - Len(a.fp))
      B   == <<"0">> \o Zeros(I - Len(b.ip)) \o b.ip \o b.fp \o Zeros(F - Len(b.fp))
      n   == I + F + 1
      sum == <<>> \o [i \in 1..n |-> DigitVal(A[i]) + DigitVal(B[i])]
      carry(i) == LET not9 == {j \in (i + 1)..n : sum[j] # 9}
                  IN  not9 # {} /\ sum[SetMin(not9)] >= 10
      out == <<>> \o [i \in 1..n |->
                        DigitChar((sum[i] + (IF carry(i) THEN 1 ELSE 0)) % 10)]
  IN  Dec(SubSeq(out, 1, I + 1), SubSeq(out, I + 2, n))

\* x * 2 ** k for k in 0..8: the digit of the product at a place is decided
\* by the digit of x at that place and the k digits after it.
TimesPow2(x, k) ==
  LET I   == Len(x.ip)
      all == Zeros(k) \o x.ip \o x.fp \o Zeros(k)
      out == <<>> \o [j \in 1..(k + I + Len(x.fp)) |->
               DigitChar((ToInt(SubSeq(all, j, j + k)) \div IPow(5, k)) % 10)]
  IN  Dec(SubSeq(out, 1, k + I), SubSeq(out, k + I + 1, Len(out)))

\* x / 2 ** k for k in 0..8: the digit of the quotient at a place is decided
\* by the digit of x at that place and the k digits before it.
OverPow2(x, k) ==
  LET I   == Len(x.ip)
      all == Zeros(k) \o x.ip \o x.fp \o Zeros(k)
      out == <<>> \o [j \in 1..(I + Len(x.fp) + k) |->
               DigitChar((ToInt(SubSeq(all, j, j + k)) \div IPow(2, k)) % 10)]
  IN  Dec(SubSeq(out, 1, I), SubSeq(out, I + 1, Len(out)))

\* x * 2 ** e, exactly, for any int e
RECURSIVE Scale2(_, _)
Scale2(x, e) ==
  IF e = 0 \/ x = Zero THEN x
  ELSE IF e > 0 /\ e <= 8 THEN TimesPow2(x, e)
  ELSE IF e < 0 /\ e >= -8 THEN OverPow2(x, 0 - e)
  ELSE Scale2(Scale2(x, e \div 2), e - (e \div 2))

\* The binary exponent of the smallest positive double, 2 ** -1074.
MinExp == -1074

\* 2 ** 52 and 2 ** 53: a double is m * 2 ** e with m below 2 ** 53, and with
\* m at least 2 ** 52 unless e is MinExp.
TwoTo52 == Scale2(One, 52)

TwoTo53 == Scale2(One, 53)

\* 2 ** 1024 - 2 ** 970 = (2 ** 54 - 1) * 2 ** 970, half way from the largest
\* double to 2 ** 1024: from here on float() gives inf.
FloatOverflow ==
  Scale2([ip |-> <<"1","8","0","1","4","3","9","8","5","0","9","4","8","1","9","8","3">>,
          fp |-> <<>>], 970)

\* The decimal exponent of x > 0: 10 ** (Mag(x) - 1) <= x < 10 ** Mag(x)
Mag(x) ==
  IF x.ip # <<"0">> THEN Len(x.ip)
  ELSE 1 - SetMin({i \in 1..Len(x.fp) : x.fp[i] # "0"})

\* A first value for the binary exponent of a number of decimal exponent mag,
\* from log2(10) = 3.32...; Normalise settles it.
FirstExp(mag) ==
  LET e == (((mag - 1) * 3322) \div 1000) - 52
  IN  IF e < MinExp THEN MinExp ELSE e

\* x / 10 ** k rounded to an int, of two equally near ints the even one
HalfEven(x, k) ==
  LET padded == IF Len(x.ip) > k THEN x.ip ELSE Zeros(k + 1 - Len(x.ip)) \o x.ip
      keep   == SubSeq(padded, 1, Len(padded) - k)
      rest   == SubSeq(padded, Len(padded) - k + 1, Len(padded)) \o x.fp
      first  == IF rest = <<>> THEN 0 ELSE DigitVal(rest[1])
      more   == \E i \in 2..Len(rest) : rest[i] # "0"
      odd    == DigitVal(keep[Len(keep)]) % 2 = 1
      up     == first > 5 \/ (first = 5 /\ (more \/ odd))
  IN  StripLeadingZeros(IF up THEN Incr(keep) ELSE keep)

\* x / 10 ** k rounded to an int, of two equally near ints the larger one
HalfUp(x, k) ==
  LET padded == IF Len(x.ip) > k THEN x.ip ELSE Zeros(k + 1 - Len(x.ip)) \o x.ip
      keep   == SubSeq(padded, 1, Len(padded) - k)
      rest   == SubSeq(padded, Len(padded) - k + 1, Len(padded)) \o x.fp
      up     == Len(rest) > 0 /\ DigitVal(rest[1]) >= 5
  IN  StripLeadingZeros(IF up THEN Incr(keep) ELSE keep)

\* s = d / 2 ** e brought to 2 ** 52 <= s < 2 ** 53, or to e = MinExp
RECURSIVE Normalise(_, _)
Normalise(s, e) ==
  IF ~DecLess(s, TwoTo53) THEN Normalise(OverPow2(s, 1), e + 1)
  ELSE IF e > MinExp /\ DecLess(s, TwoTo52) THEN Normalise(TimesPow2(s, 1), e - 1)
  ELSE [s |-> s, e |-> e]

\* The double nearest to the decimal d, 0 <= d < FloatOverflow, of two equally
\* near the one with the even mantissa: d = s * 2 ** e, and s is rounded to
\* the mantissa.
FromMantissa(n) == Scale2([ip |-> HalfEven(n.s, 0), fp |-> <<>>], n.e)

ToDouble(d) ==
  IF d = Zero THEN Zero
  ELSE FromMantissa(Normalise(Scale2(d, 0 - FirstExp(Mag(d))), FirstExp(Mag(d))))

\* float(s) of a digit string s with at most one "." in it: a decimal digit
\* of any script counts as the ASCII digit of its value.  An int of at most
\* 15 digits is a double.
ToFloat(s) ==
  LET a    == <<>> \o [i \in 1..Len(s) |-> AsciiDigit(s[i])]
      dots == {i \in 1..Len(a) : a[i] = "."}
      p    == IF dots = {} THEN Len(a) + 1 ELSE SetMin(dots)
      d    == Dec(SubSeq(a, 1, p - 1), SubSeq(a, p + 1, Len(a)))
  IN  IF ~DecLess(d, FloatOverflow) THEN Inf
      ELSE IF d.fp = <<>> /\ Len(d.ip) <= 15 THEN d
      ELSE ToDouble(d)

\* h = f * 2 ** (e + 52) brought to h <= x < 2 * h, or to e = MinExp
RECURSIVE NormaliseDivisor(_, _, _)
NormaliseDivisor(x, h, e) ==
  IF ~DecLess(x, TimesPow2(h, 1)) THEN NormaliseDivisor(x, TimesPow2(h, 1), e + 1)
  ELSE IF e > MinExp /\ DecLess(x, h) THEN NormaliseDivisor(x, OverPow2(h, 1), e - 1)
  ELSE [h |-> h, e |-> e]

\* One bit of the quotient: q and p = q * g take the bit u when cand, which
\* is p + u * g, does not exceed x.
BitTaken(st, cand, x) ==
  IF DecLess(x, cand)
  THEN [p |-> st.p, q |-> st.q, g |-> OverPow2(st.g, 1), u |-> OverPow2(st.u, 1)]
  ELSE [p |-> cand, q |-> DecAdd(st.q, st.u),
        g |-> OverPow2(st.g, 1), u |-> OverPow2(st.u, 1)]

QuotientBit(st, x) == BitTaken(st, DecAdd(st.p, st.g), x)

\* The next n bits of the quotient, from the highest down to the bit 1.
RECURSIVE QuotientBits(_, _, _)
QuotientBits(st, x, n) ==
  IF DecLess(st.u, One) THEN st
  ELSE IF n = 1 THEN QuotientBit(st, x)
  ELSE QuotientBits(QuotientBits(st, x, n \div 2), x, n - (n \div 2))

\* The quotient q of 53 bits rounded by what is left of x, with half the
\* value of the last bit at x's scale, and scaled by 2 ** e.
RoundQuotient(x, q, half, e) ==
  Scale2(IF DecLess(half, x) \/ (half = x /\ DigitVal(q.ip[Len(q.ip)]) % 2 = 1)
         THEN DecAdd(q, One) ELSE q, e)

\* The mantissa of x / f for the divisor n.h = f * 2 ** (n.e + 52).
DivideBy(x, st, e) == RoundQuotient(x, st.q, DecAdd(st.p, st.g), e)

\* x / f of two finite doubles, f >= 1: the double nearest to the quotient,
\* of two equally near the one with the even mantissa.  The mantissa is the
\* 53 bits of x / (f * 2 ** e), rounded by what is left of x.
FloatDivFrom(x, n) ==
  DivideBy(x, QuotientBits([p |-> Zero, q |-> Zero, g |-> n.h, u |-> TwoTo52], x, 53),
           n.e)

FloatDiv(x, f) ==
  IF x = Zero THEN Zero
  ELSE FloatDivFrom(x, NormaliseDivisor(x, Scale2(f, FirstExp(Mag(x) - Mag(f) + 1) + 52),
                                           FirstExp(Mag(x) - Mag(f) + 1)))

\* number >= k, number == k, number > k, for a small int k
NumGE(x, k) ==
  \/ IsInf(x)
  \/ Len(x.ip) > Len(IntToStr(k))
  \/ Len(x.ip) = Len(IntToStr(k)) /\ ToInt(x.ip) >= k

NumEQ(x, k) == x.ip = IntToStr(k) /\ x.fp = <<>>

NumGT(x, k) == NumGE(x, k) /\ ~NumEQ(x, k)

\* int * 10 ** k
TimesPow10(n, k) == StripLeadingZeros(n \o Zeros(k))

\* The largest k for which round(x / 10 ** k) of a double x below 10 ** (k + 3)
\* is the exact quotient rounded: 10 ** k and every n + 0.5 times 10 ** k, n
\* below 1000, are doubles, so the quotient is n + 0.5 only when x is that
\* double and is otherwise on the side of it that x / 10 ** k is on.
MaxExactPow10 == 18

\* round(x / 10 ** k) for a finite double x, round(x) for k = 0, with a tie
\* always taken upwards.
PyRoundUp(x, k) ==
  IF k = 0 \/ (k <= MaxExactPow10 /\ Len(x.ip) <= k + 3) THEN HalfUp(x, k)
  ELSE HalfUp(FloatDiv(x, ToFloat(<<"1">> \o Zeros(k))), 0)

\* round(x / 10 ** k) for a finite double x, round(x) for k = 0: the division
\* gives a double, and Python 3's round of a float to an int takes the nearest
\* int and, of two equally near, the even one.
PyRound(x, k) ==
  IF k = 0 \/ (k <= MaxExactPow10 /\ Len(x.ip) <= k + 3) THEN HalfEven(x, k)
  ELSE HalfEven(FloatDiv(x, ToFloat(<<"1">> \o Zeros(k))), 0)

----------------------------------------------------------------------------
(* The literals of the source.                                             *)

Jahr == <<"J","a","h","r">>

JahrSpace == <<"J","a","h","r"," ">>

JahreSpace == <<"J","a","h","r","e"," ">>

Euro == <<"E","u","r","o">>

Prozent == <<"P","r","o","z","e","n","t">>

Etwa == <<"e","t","w","a"," ">>

JederVierte == <<"j","e","d","e","r"," ","V","i","e","r","t","e">>

DieHaelfte == <<"d","i","e"," ","H","ä","l","f","t","e">>

DreiVonVier == <<"d","r","e","i"," ","v","o","n"," ","v","i","e","r">>

FastAlle == <<"f","a","s","t"," ","a","l","l","e">>

MehrAlsDieHaelfte ==
  <<"m","e","h","r"," ","a","l","s"," ","d","i","e"," ","H","ä","l","f","t","e">>

Wenige == <<"w","e","n","i","g","e">>

months ==
  {<<"J","a","n","u","a","r">>, <<"F","e","b","r","u","a","r">>,
   <<"M","ä","r","z">>, <<"A","p","r","i","l">>, <<"M","a","i">>,
   <<"J","u","n","i">>, <<"J","u","l","i">>, <<"A","u","g","u","s","t">>,
   <<"S","e","p","t","e","m","b","e","r">>, <<"O","k","t","o","b","e","r">>,
   <<"N","o","v","e","m","b","e","r">>, <<"D","e","z","e","m","b","e","r">>}

----------------------------------------------------------------------------
(* The helpers of simplify_numbers.                                        *)

\* float(s) raises ValueError: s is no decimal literal.
FloatRaises(s) ==
  \/ Cardinality({i \in 1..Len(s) : s[i] = "."}) > 1
  \/ \A i \in 1..Len(s) : s[i] \notin Digits
  \/ \E i \in 1..Len(s) : s[i] \notin Digits \cup {"."}

convert_german_number(number_str) ==
  ToFloat(replace(remove(number_str, "."), ",", "."))

\* f"{number:,}".replace(',', '.')
GroupThousands(ds) ==
  LET n     == Len(ds)
      lead  == ((n - 1) % 3) + 1
      total == n + (n - 1) \div 3
      \* the output position p holds a "." after every group
      char(p) == IF p <= lead THEN ds[p]
                 ELSE LET q == p - lead  \* 1-based offset in ".ddd.ddd"
                      IN  IF (q - 1) % 4 = 0 THEN "."
                          ELSE ds[lead + q - ((q - 1) \div 4) - 1]
  IN  [p \in 1..total |-> char(p)]

format_german_number(num, is_count) ==
  IF ~is_count THEN num
  ELSE IF Len(num) >= 4 THEN GroupThousands(num)
  ELSE num

\* round_to_significant raises OverflowError: for inf the magnitude is 1 and
\* round(inf / 1) has no int to give.
RoundToSignificantRaises(x) == IsInf(x)

\* The value round_to_significant returns when it does not raise.
round_to_significant(x) ==
  IF ~NumGE(x, 100) THEN PyRound(x, 0)
  ELSE LET num_length == Len(PyRound(x, 0))
       IN  IF NumGE(x, 100000)
           THEN TimesPow10(PyRound(x, num_length - 3), num_length - 3)
           ELSE IF NumGE(x, 1000)
           THEN TimesPow10(PyRound(x, 3), 3)
           ELSE TimesPow10(PyRound(x, 2), 2)

\* The comparisons of size made before the three equalities.
simplify_percentage_by_size(g1) ==
  LET x == ToFloat(replace(g1, ",", "."))
  IN  IF NumGE(x, 90) THEN FastAlle
      ELSE IF NumGT(x, 50) THEN MehrAlsDieHaelfte
      ELSE IF NumEQ(x, 25) THEN JederVierte
      ELSE IF NumEQ(x, 50) THEN DieHaelfte
      ELSE IF NumEQ(x, 75) THEN DreiVonVier
      ELSE IF ~NumGT(x, 15) THEN Wenige
      ELSE Etwa \o PyRound(x, 0) \o <<" ">> \o Prozent

\* g1 is match.group(1)
simplify_percentage(g1) ==
  LET x == ToFloat(replace(g1, ",", "."))
  IN  IF NumEQ(x, 25) THEN JederVierte
      ELSE IF NumEQ(x, 50) THEN DieHaelfte
      ELSE IF NumEQ(x, 75) THEN DreiVonVier
      ELSE IF NumGE(x, 90) THEN FastAlle
      ELSE IF NumGT(x, 50) THEN MehrAlsDieHaelfte
      ELSE IF ~NumGT(x, 15) THEN Wenige
      ELSE Etwa \o PyRound(x, 0) \o <<" ">> \o Prozent

\* No value taken for a year.
looks_like_year_never(txt, pos, num) == FALSE

\* num is round(number), an int
looks_like_year(txt, pos, num) ==
  LET before_text == strip(PySlice(txt, 0, pos))
  IN  IF endswith(before_text, JahrSpace) \/ endswith(before_text, JahreSpace)
      THEN FALSE
      ELSE Len(num) = 4 /\ ToInt(num) >= 1900 /\ ToInt(num) <= 2100

\* Only next_words[0] compared with the month names.
is_part_of_date_first_word(txt, pos) ==
  LET ahead      == PySlice(txt, pos, pos + 4)
      day        == RunEnd(ahead, 0, Digits)
      next_words == split(PySlice(txt, pos, pos + 50))
  IN  IF /\ pos > 0
         /\ isspace(PySlice(txt, pos - 2, pos))
         /\ day > 0 /\ day < Len(ahead) /\ ahead[day + 1] = "."
      THEN TRUE
      ELSE IF next_words = <<>> THEN FALSE
      ELSE next_words[1] \in months

is_part_of_date(txt, pos) ==
  LET ahead      == PySlice(txt, pos, pos + 4)
      day        == RunEnd(ahead, 0, Digits)
      next_words == split(PySlice(txt, pos, pos + 50))
  IN  IF /\ pos > 0
         /\ isspace(PySlice(txt, pos - 2, pos))
         /\ day > 0 /\ day < Len(ahead) /\ ahead[day + 1] = "."
      THEN TRUE
      ELSE IF next_words = <<>> THEN FALSE
      ELSE \/ next_words[1] \in months
           \/ (Len(next_words) > 1 /\ next_words[2] \in months)

\* The 4-digit branch of is_year is reached: before_words[-1] is evaluated.
IsYearReadsLastWord(txt, pos) ==
  LET before_text == strip(PySlice(txt, 0, pos))
      num         == PySlice(txt, pos, RunEnd(txt, pos, Digits))
  IN  /\ num # <<>>
      /\ ~endswith(before_text, Jahr)
      /\ Len(num) = 4
      /\ (startswith(num, <<"1","9">>) \/ startswith(num, <<"2","0">>))

\* is_year raises IndexError: before_words is empty at before_words[-1].
IsYearRaises(txt, pos) ==
  /\ IsYearReadsLastWord(txt, pos)
  /\ split(strip(PySlice(txt, 0, pos))) = <<>>

\* "Jahr " looked for at the end of the stripped text, as looks_like_year does.
is_year_jahr_space(txt, pos) ==
  LET before_text  == strip(PySlice(txt, 0, pos))
      num          == PySlice(txt, pos, RunEnd(txt, pos, Digits))
      before_words == split(before_text)
  IN  IF num = <<>> THEN FALSE
      ELSE IF endswith(before_text, JahrSpace) THEN TRUE
      ELSE IF IsYearReadsLastWord(txt, pos)
      THEN \E month \in months : contains(before_words[Len(before_words)], month)
      ELSE FALSE

\* The value is_year returns when it does not raise.
is_year(txt, pos) ==
  LET before_text  == strip(PySlice(txt, 0, pos))
      num          == PySlice(txt, pos, RunEnd(txt, pos, Digits))
      before_words == split(before_text)
  IN  IF num = <<>> THEN FALSE
      ELSE IF endswith(before_text, Jahr) THEN TRUE
      ELSE IF IsYearReadsLastWord(txt, pos)
      THEN \E month \in months : contains(before_words[Len(before_words)], month)
      ELSE FALSE

----------------------------------------------------------------------------
(* The two patterns.  A match is [start, num_end, unit_start, end]:         *)
(* group(1) is s[start:num_end], group(2) is s[unit_start:end], group(0)    *)
(* is s[start:end].                                                         *)

NoMatch == [start |-> -1, num_end |-> -1, unit_start |-> -1, end |-> -1]

group0(s, m) == PySlice(s, m.start, m.end)

group1(s, m) == PySlice(s, m.start, m.num_end)

group2(s, m) == PySlice(s, m.unit_start, m.end)

\* (?:\.\d+)* from offset j, the end of a run of digits: the run of digits
\* and "." from j, up to its first "." that no digit follows.
DotGroupsEnd(s, j) ==
  LET r   == RunEnd(s, j, Digits \cup {"."})
      bad == {p \in j..(r - 1) : s[p + 1] = "." /\ (p + 1 >= r \/ s[p + 2] = ".")}
  IN  IF bad = {} THEN r ELSE SetMin(bad)

\* (?:,\d+)? from offset j
CommaGroupEnd(s, j) ==
  IF j + 2 <= Len(s) /\ s[j + 1] = "," /\ s[j + 2] \in Digits
  THEN RunEnd(s, j + 1, Digits)
  ELSE j

\* (?:Euro|[A-Za-zÄäÖöÜüß]+)? from offset k
UnitEnd(s, k) ==
  IF PySlice(s, k, k + 4) = Euro THEN k + 4 ELSE RunEnd(s, k, Letters)

\* (\d+(?:\.\d+)*(?:,\d+)?)\s*((?:Euro|[A-Za-zÄäÖöÜüß]+)?) matched at offset i,
\* where s[i] is a digit
NumeralMatchAt(s, i) ==
  LET e1 == CommaGroupEnd(s, DotGroupsEnd(s, RunEnd(s, i, Digits)))
      k  == RunEnd(s, e1, Whitespace)
  IN  [start |-> i, num_end |-> e1, unit_start |-> k, end |-> UnitEnd(s, k)]

\* The first match re.finditer(pattern, s) yields at or after offset from
FindNumeral(s, from) ==
  LET ds == {i \in from..(Len(s) - 1) : s[i + 1] \in Digits}
  IN  IF ds = {} THEN NoMatch ELSE NumeralMatchAt(s, SetMin(ds))

\* (\d+(?:,\d+)?)\s*Prozent matched at offset i, or NoMatch
PercentMatchAt(s, i) ==
  LET a == RunEnd(s, i, Digits)
      b == CommaGroupEnd(s, a)
      c == RunEnd(s, b, Whitespace)
  IN  IF a > i /\ PySlice(s, c, c + 7) = Prozent
      THEN [start |-> i, num_end |-> b, unit_start |-> c, end |-> c + 7]
      ELSE NoMatch

\* re.sub(r'(\d+(?:,\d+)?)\s*Prozent', simplify_percentage, s), from offset i.
\* A match starts at a digit, and when there is none at the first digit of a
\* run of digits there is none at the others.
RECURSIVE SubPercentages(_, _)
SubPercentages(s, i) ==
  LET ds == {j \in i..(Len(s) - 1) : s[j + 1] \in Digits}
  IN  IF ds = {} THEN PyFrom(s, i)
      ELSE LET d == SetMin(ds)
               m == PercentMatchAt(s, d)
           IN  IF m = NoMatch
               THEN PySlice(s, i, RunEnd(s, d, Digits))
                      \o SubPercentages(s, RunEnd(s, d, Digits))
               ELSE PySlice(s, i, d) \o simplify_percentage(group1(s, m))
                      \o SubPercentages(s, m.end)

\* simplify_regular_number raises OverflowError: the numeral parses to inf,
\* and the handler takes ValueError only.
SimplifyRaises(txt, m) ==
  LET clean == replace(remove(group1(txt, m), "."), ",", ".")
  IN  ~FloatRaises(clean) /\ RoundToSignificantRaises(convert_german_number(group1(txt, m)))

\* simplify_regular_number(match, text_pos), with text the enclosing variable:
\* the value it returns when it does not raise.
simplify_regular_number(txt, m) ==
  LET number_str == group1(txt, m)
      clean      == replace(remove(number_str, "."), ",", ".")
      x          == convert_german_number(number_str)
      rounded    == round_to_significant(x)
      suffix     == group2(txt, m)
      is_count   == ~looks_like_year(txt, m.start, PyRound(x, 0))
  IN  IF FloatRaises(clean) THEN number_str
      ELSE Etwa \o format_german_number(rounded, is_count)
             \o (IF suffix # <<>> THEN <<" ">> \o suffix ELSE <<>>)

----------------------------------------------------------------------------
(* The inputs of the model.                                                *)

\* test_cases of the source
test_cases ==
  { <<"3","2","4",".","6","2","0",",","2","2"," ","E","u","r","o"," ","w","u","r","d","e","n"," ","g","e","s","p","e","n","d","e","t",".">>,
    <<"1",".","8","9","7"," ","M","e","n","s","c","h","e","n"," ","n","a","h","m","e","n"," ","t","e","i","l",".">>,
    <<"2","5"," ","P","r","o","z","e","n","t"," ","d","e","r"," ","B","e","v","ö","l","k","e","r","u","n","g"," ","s","i","n","d"," ","b","e","t","r","o","f","f","e","n",".">>,
    <<"9","0"," ","P","r","o","z","e","n","t"," ","s","t","i","m","m","t","e","n"," ","z","u",".">>,
    <<"1","4"," ","P","r","o","z","e","n","t"," ","l","e","h","n","t","e","n"," ","a","b",".">>,
    <<"B","e","i"," ","3","8",",","7"," ","G","r","a","d"," ","C","e","l","s","i","u","s"," ","i","s","t"," ","e","s"," ","s","e","h","r"," ","h","e","i","ß",".">>,
    <<"d","e","n","n"," ","d","i","e"," ","R","e","n","t","e"," ","s","t","e","i","g","t"," ","u","m"," ","4",",","5","7"," ","P","r","o","z","e","n","t",".">>,
    <<"I","m"," ","J","a","h","r"," ","2","0","2","4"," ","g","a","b"," ","e","s"," ","1",".","2","3","4"," ","E","r","e","i","g","n","i","s","s","e",".">>,
    <<"A","m"," ","1","."," ","J","a","n","u","a","r"," ","2","0","2","4"," ","w","a","r","e","n"," ","e","s"," ","5",".","6","7","8"," ","T","e","i","l","n","e","h","m","e","r",".">>,
    <<"I","m"," ","J","a","h","r"," ","2","0","2","5"," ","g","a","b"," ","e","s"," ","2","0","1","8"," ","E","r","e","i","g","n","i","s","s","e",".">>
  }

\* The longest text the model builds, in tokens.
MaxTokens == 3

Tokens ==
  { <<"2","0">>, <<"2","0","2","0">>, <<"5","0","0","0">>,
    <<"J","a","h","r">>, <<"J","a","h","r","e">>, <<"M","a","i">>,
    <<"P","r","o","z","e","n","t">>, <<".">>, <<"\t">> }

Separators == { <<>>, <<" ">> }

\* The texts of exactly k tokens, a separator between each two.
RECURSIVE TextsOf(_)
TextsOf(k) ==
  IF k = 0 THEN {<<>>}
  ELSE IF k = 1 THEN Tokens
  ELSE {p \o sep \o t : p \in TextsOf(k - 1), sep \in Separators, t \in Tokens}

\* Texts with decimal digits that are not ASCII.
DigitExamples ==
  { <<"۵","۰","۰"," ","E","u","r","o">>,
    <<"۲","۵"," ","P","r","o","z","e","n","t">>,
    <<"1","۵"," ","E","u","r","o">>,
    <<"۲","۰","۲","۴">>,
    <<"M","a","i"," ","۲","۰","۲","۰">>,
    <<"a","m"," ","৫","."," ","M","a","i">>,
    <<"১",".","২","৩","৪",",","৫"," ","E","u","r","o">> }

\* A numeral too large for a double: the digits of 2 ** 1024.
OverflowText == Scale2(One, 1024).ip

\* The texts simplify_numbers is called on: those of at most n tokens, the
\* test cases, the texts with other digits and the numeral too large for a
\* double.
Inputs(n) ==
  test_cases \cup DigitExamples \cup {OverflowText}
    \cup UNION {TextsOf(k) : k \in 0..n}

----------------------------------------------------------------------------
(* simplify_numbers as a state machine: the percentage pass, then one step *)
(* per iteration of the loop over the numeral matches, then the return.    *)

Init ==
  /\ raw_text \in Inputs(MaxTokens)
  /\ text = raw_text
  /\ result = <<>>
  /\ last_end = 0
  /\ match = NoMatch
  /\ piece = <<>>
  /\ pc = "percent"
  /\ number = None
  /\ ret = None

\* text = re.sub(...); result = ""; last_end = 0
ReplacePercentages ==
  /\ pc = "percent"
  /\ text' = SubPercentages(text, 0)
  /\ result' = <<>>
  /\ last_end' = 0
  /\ pc' = "scan"
  /\ UNCHANGED <<raw_text, match, piece, number, ret>>

\* The gap taken one character too far.
GapInclusive(txt, from, start) == PySlice(txt, from, start + 1)

\* text[last_end:start]
Gap(txt, from, start) == PySlice(txt, from, start)

\* last_end = match.end()
NewLastEnd(m) == m.end

\* The loop body raises IndexError for the match m, in is_year.
BodyRaisesIndexError(txt, m) ==
  ~is_part_of_date(txt, m.start) /\ IsYearRaises(txt, m.start)

\* The loop body raises OverflowError for the match m, in
\* simplify_regular_number.
BodyRaisesOverflowError(txt, m) ==
  /\ ~is_part_of_date(txt, m.start)
  /\ ~IsYearRaises(txt, m.start)
  /\ ~is_year(txt, m.start)
  /\ SimplifyRaises(txt, m)

\* The string the loop body appends for the match m, when it does not raise.
Rendering(txt, m) ==
  IF ~(is_part_of_date(txt, m.start) \/ is_year(txt, m.start))
  THEN simplify_regular_number(txt, m)
  ELSE group0(txt, m)

\* One iteration of the loop that returns to its head.
ProcessMatch ==
  /\ pc = "scan"
  /\ LET m == FindNumeral(text, last_end)
     IN  /\ m # NoMatch
         /\ ~BodyRaisesIndexError(text, m)
         /\ ~BodyRaisesOverflowError(text, m)
         /\ match' = m
         /\ piece' = Rendering(text, m)
         /\ result' = result \o Gap(text, last_end, m.start) \o piece'
         /\ last_end' = NewLastEnd(m)
  /\ UNCHANGED <<raw_text, text, pc, number, ret>>

\* One iteration in which is_year raises IndexError: simplify_numbers has no
\* handler for it, and the exception reaches the caller.
RaiseIndexError ==
  /\ pc = "scan"
  /\ LET m == FindNumeral(text, last_end)
     IN  /\ m # NoMatch
         /\ BodyRaisesIndexError(text, m)
         /\ match' = m
         /\ result' = result \o Gap(text, last_end, m.start)
  /\ pc' = "raised"
  /\ ret' = "IndexError"
  /\ UNCHANGED <<raw_text, text, last_end, piece, number>>

\* One iteration in which round_to_significant raises OverflowError, the
\* numeral being too large for a double: simplify_regular_number handles
\* ValueError only, and the exception reaches the caller.
RaiseOverflowError ==
  /\ pc = "scan"
  /\ LET m == FindNumeral(text, last_end)
     IN  /\ m # NoMatch
         /\ BodyRaisesOverflowError(text, m)
         /\ match' = m
         /\ result' = result \o Gap(text, last_end, m.start)
  /\ pc' = "raised"
  /\ ret' = "OverflowError"
  /\ UNCHANGED <<raw_text, text, last_end, piece, number>>

\* The loop is over: result += text[last_end:]; return result
Return ==
  /\ pc = "scan"
  /\ FindNumeral(text, last_end) = NoMatch
  /\ result' = result \o PyFrom(text, last_end)
  /\ pc' = "returned"
  /\ UNCHANGED <<raw_text, text, last_end, match, piece, number, ret>>

Next ==
  \/ ReplacePercentages
  \/ ProcessMatch
  \/ RaiseIndexError
  \/ RaiseOverflowError
  \/ Return

Spec == Init /\ [][Next]_vars

----------------------------------------------------------------------------
(* round_to_significant and simplify_percentage called on their own.       *)

RECURSIVE Pow10(_)
Pow10(k) == IF k = 0 THEN 1 ELSE 10 * Pow10(k - 1)

\* The float of an int, and of the literal "n.d" of a count of tenths.
FromInt(n) == ToFloat(IntToStr(n))

FromTenths(t) == ToFloat(IntToStr(t \div 10) \o <<".", DigitChar(t % 10)>>)

\* The ints the rounder is called on are m * 10^e - 1, m * 10^e and
\* m * 10^e + 1, for m up to MaxMantissa and e up to MaxExp.
MaxMantissa == 1200

MaxExp == 4

\* The largest value with one decimal the rounder is called on, in tenths.
MaxTenths == 1100

\* The values of section 8 of the specification.
RoundExamples == {324620, 1897, 150, 42}

\* A double of 22 digits just above the middle of two multiples of 10^19:
\* 2565000000000000262144.
LargeExamples ==
  { <<"2","5","6","5">> \o Zeros(12) \o <<"2","6","2","1","4","4">> }

\* The floats the rounder is called on, inf among them.
RoundInputs(mm, me, mt) ==
  {FromInt(v) : v \in {m * Pow10(e) + o : m \in 1..mm, e \in 0..me,
                                           o \in {-1, 0, 1}} \cup RoundExamples}
    \cup {FromTenths(t) : t \in 0..mt}
    \cup {ToFloat(ds) : ds \in LargeExamples}
    \cup {Inf}

InitRound ==
  /\ number \in RoundInputs(MaxMantissa, MaxExp, MaxTenths)
  /\ ret = None
  /\ pc = "call_round"
  /\ raw_text = <<>> /\ text = <<>> /\ result = <<>> /\ last_end = 0
  /\ match = NoMatch /\ piece = <<>>

CallRound ==
  /\ pc = "call_round"
  /\ ~RoundToSignificantRaises(number)
  /\ ret' = round_to_significant(number)
  /\ pc' = "returned_round"
  /\ UNCHANGED <<raw_text, text, result, last_end, match, piece, number>>

\* round_to_significant(inf) raises OverflowError.
RaiseRound ==
  /\ pc = "call_round"
  /\ RoundToSignificantRaises(number)
  /\ ret' = "OverflowError"
  /\ pc' = "raised_round"
  /\ UNCHANGED <<raw_text, text, result, last_end, match, piece, number>>

NextRound == CallRound \/ RaiseRound

SpecRound == InitRound /\ [][NextRound]_vars

\* The largest percentage the rewriter is called on, in tenths.
MaxPercentTenths == 1100

\* Percentages that are no doubles: 24,99999999999999999999 is parsed as
\* 25.0, 49,99999999999999999 as 50.0, 15,00000000000000001 as 15.0 and 20,55
\* as a double just above it.  Percentages in digits that are not ASCII.
PercentExamples ==
  { <<"۲","۵">>, <<"৭","5">>, <<"߂","߀",",","߅">>,
    <<"2","4",",">> \o [i \in 1..20 |-> "9"],
    <<"4","9",",">> \o [i \in 1..17 |-> "9"],
    <<"1","5",",">> \o Zeros(16) \o <<"1">>,
    <<"2","0",",","5","5">> }

\* group(1) of a percentage match: "n" and "n,d", and the examples
PercentInputs(mt) ==
  {IntToStr(t \div 10) \o <<",", DigitChar(t % 10)>> : t \in 0..mt}
    \cup {IntToStr(n) : n \in 0..(mt \div 10)}
    \cup PercentExamples

InitPercent ==
  /\ number \in PercentInputs(MaxPercentTenths)
  /\ ret = None
  /\ pc = "call_percent"
  /\ raw_text = <<>> /\ text = <<>> /\ result = <<>> /\ last_end = 0
  /\ match = NoMatch /\ piece = <<>>

CallPercent ==
  /\ pc = "call_percent"
  /\ ret' = simplify_percentage(number)
  /\ pc' = "returned_percent"
  /\ UNCHANGED <<raw_text, text, result, last_end, match, piece, number>>

NextPercent == CallPercent

SpecPercent == InitPercent /\ [][NextPercent]_vars

----------------------------------------------------------------------------
(* The properties.                                                         *)

\* The loop has processed the numeral match held in match, and piece is what
\* it appended for it.
Processed == pc \in {"scan", "returned"} /\ match # NoMatch

\* The text before the match, as it stands and stripped.
Preceding == PySlice(text, 0, match.start)

\* The parsed value of the match and its round().
MatchValue == convert_german_number(group1(text, match))

InYearRange(n) == Len(n) = 4 /\ ToInt(n) >= 1900 /\ ToInt(n) <= 2100

\* The loop simplified the match: neither classifier held it back.
Simplified ==
  /\ Processed
  /\ ~is_part_of_date(text, match.start)
  /\ ~is_year(text, match.start)

\* "etwa <digits>" followed by " <unit>" when the match captured a unit.
EtwaWith(ds) ==
  Etwa \o ds \o (IF group2(text, match) # <<>>
                 THEN <<" ">> \o group2(text, match) ELSE <<>>)

Year2024Text ==
  <<"I","m"," ","J","a","h","r"," ","2","0","2","4"," ","g","a","b"," ","e","s"," ","1",".","2","3","4"," ","E","r","e","i","g","n","i","s","s","e",".">>

Year2024Out ==
  <<"I","m"," ","J","a","h","r"," ","2","0","2","4"," ","g","a","b"," ","e","s"," ","e","t","w","a"," ","1",".","0","0","0"," ","E","r","e","i","g","n","i","s","s","e",".">>

JanuarText ==
  <<"A","m"," ","1","."," ","J","a","n","u","a","r"," ","2","0","2","4"," ","w","a","r","e","n"," ","e","s"," ","5",".","6","7","8"," ","T","e","i","l","n","e","h","m","e","r",".">>

JanuarOut ==
  <<"A","m"," ","1","."," ","J","a","n","u","a","r"," ","2","0","2","4"," ","w","a","r","e","n"," ","e","s"," ","e","t","w","a"," ","6",".","0","0","0"," ","T","e","i","l","n","e","h","m","e","r",".">>

Year2025Text ==
  <<"I","m"," ","J","a","h","r"," ","2","0","2","5"," ","g","a","b"," ","e","s"," ","2","0","1","8"," ","E","r","e","i","g","n","i","s","s","e",".">>

Year2025Out ==
  <<"I","m"," ","J","a","h","r"," ","2","0","2","5"," ","g","a","b"," ","e","s"," ","e","t","w","a"," ","2","0","0","0"," ","E","r","e","i","g","n","i","s","s","e",".">>

\* C1: simplify_numbers never raises an exception to its caller, wherever a
\* numeral stands in the text.  (Violated: a numeral of four digits that
\* begins with 19 or 20, with no word before it and no date context, makes
\* is_year index an empty list.)
C1_NeverRaises == pc # "raised"

\* The matches re.finditer yields over s from offset from, in order.
RECURSIVE MatchSpans(_, _)
MatchSpans(s, from) ==
  LET m == FindNumeral(s, from)
  IN  IF m = NoMatch THEN <<>> ELSE <<m>> \o MatchSpans(s, m.end)

\* The output for the first k of the matches: each gap, then each rendering.
RECURSIVE Assembled(_, _, _)
Assembled(s, spans, k) ==
  IF k = 0 THEN <<>>
  ELSE Assembled(s, spans, k - 1)
         \o PySlice(s, IF k = 1 THEN 0 ELSE spans[k - 1].end, spans[k].start)
         \o Rendering(s, spans[k])

\* C2: the numeral pass visits the matches left to right, the matches are not
\* empty, do not overlap and hold every digit of the text; after k matches the
\* output is the text up to the k-th match's end with those k matches replaced
\* by their renderings and every other character copied once, in order; the
\* returned string is that for all matches, followed by the rest of the text.
C2_SpanPreserving ==
  pc \in {"scan", "returned"} =>
    LET spans == MatchSpans(text, 0)
        k     == Cardinality({i \in 1..Len(spans) : spans[i].end <= last_end})
    IN  /\ \A i \in 1..Len(spans) :
             /\ spans[i].start < spans[i].end
             /\ spans[i].end <= Len(text)
             /\ i < Len(spans) => spans[i].end <= spans[i + 1].start
        /\ \A j \in 1..Len(text) :
             text[j] \in Digits =>
               \E i \in 1..Len(spans) : spans[i].start < j /\ j <= spans[i].end
        /\ last_end = (IF k = 0 THEN 0 ELSE spans[k].end)
        /\ k > 0 => match = spans[k]
        /\ pc = "returned" => k = Len(spans)
        /\ result = Assembled(text, spans, k)
                      \o (IF pc = "returned" THEN PyFrom(text, last_end) ELSE <<>>)

\* A text with two matches, the first after a gap, has been returned rewritten.
C2_Witness ==
  /\ pc = "returned"
  /\ Len(MatchSpans(text, 0)) = 2
  /\ MatchSpans(text, 0)[1].start > 0
  /\ result # text

\* The fraction of x is below one half; it is exactly one half.
BelowHalf(x) == x.fp = <<>> \/ DigitVal(x.fp[1]) < 5

IsHalf(x) == x.fp = <<"5">>

\* The seven buckets of the percentage mapping, for the parsed value x.
PercentBuckets(x) ==
  LET n     == ToInt(x.ip)
      whole == x.fp = <<>>
  IN  << whole /\ n = 25, whole /\ n = 50, whole /\ n = 75, n >= 90,
         n >= 50 /\ n < 90 /\ ~(whole /\ n \in {50, 75}),
         n < 15 \/ (whole /\ n = 15),
         n >= 15 /\ n < 50 /\ ~(whole /\ n \in {15, 25}) >>

\* C3: simplify_percentage gives 25 "jeder Vierte", 50 "die Hälfte", 75 "drei
\* von vier", 90 and more "fast alle", the other values above 50 "mehr als
\* die Hälfte", 15 and less "wenige", and every other value "etwa N Prozent"
\* with N a nearest integer; each value is in exactly one of the buckets.
\* The value is the Parsed Value, the float of the literal.
C3_PercentageMapping ==
  pc = "returned_percent" =>
    LET x == convert_german_number(number)
        n == ToInt(x.ip)
        b == PercentBuckets(x)
    IN  /\ Cardinality({i \in 1..7 : b[i]}) = 1
        /\ b[1] => ret = JederVierte
        /\ b[2] => ret = DieHaelfte
        /\ b[3] => ret = DreiVonVier
        /\ b[4] => ret = FastAlle
        /\ b[5] => ret = MehrAlsDieHaelfte
        /\ b[6] => ret = Wenige
        /\ b[7] => \E r \in {n, n + 1} :
                     /\ BelowHalf(x) => r = n
                     /\ (~BelowHalf(x) /\ ~IsHalf(x)) => r = n + 1
                     /\ ret = Etwa \o IntToStr(r) \o <<" ">> \o Prozent

\* 80 Prozent, in the range 76-89, has been mapped to "mehr als die Hälfte".
C3_Witness ==
  /\ pc = "returned_percent"
  /\ number = <<"8","0">>
  /\ ret = MehrAlsDieHaelfte

\* The first percentage match of s, or NoMatch.
FirstPercent(s) ==
  LET starts == {i \in 0..(Len(s) - 1) : PercentMatchAt(s, i) # NoMatch}
  IN  IF starts = {} THEN NoMatch ELSE PercentMatchAt(s, SetMin(starts))

\* s holds a percentage expression and no digit outside its numeral.
OnlyPercentNumeral(s) ==
  /\ FirstPercent(s) # NoMatch
  /\ \A j \in 1..Len(s) :
       s[j] \in Digits => FirstPercent(s).start < j /\ j <= FirstPercent(s).num_end

\* C4: a percentage expression of the input is, in the returned text, exactly
\* the phrase the percentage mapping gives it, "etwa N Prozent" included: the
\* numeral pass does not rewrite it a second time.  Stated for the inputs whose
\* only numeral is that of the percentage.  (Violated: "20 Prozent" is
\* returned as "etwa etwa 20 Prozent".)
C4_PercentageRewrittenOnce ==
  (pc = "returned" /\ OnlyPercentNumeral(raw_text)) =>
    result = PySlice(raw_text, 0, FirstPercent(raw_text).start)
               \o simplify_percentage(group1(raw_text, FirstPercent(raw_text)))
               \o PyFrom(raw_text, FirstPercent(raw_text).end)

\* On digit strings: r is a multiple of 10^k and no multiple of 10^k is
\* nearer to v.  The two candidates are v with its last k digits set to zero
\* and the next multiple; the digits cut off decide which is near enough.
NearestMultiple(r, v, k) ==
  LET q   == SubSeq(v, 1, Len(v) - k)
      rem == SubSeq(v, Len(v) - k + 1, Len(v))
  IN  \/ k = 0 /\ r = v
      \/ /\ k > 0
         /\ r = q \o Zeros(k)
         /\ (DigitVal(rem[1]) < 5 \/ rem = <<"5">> \o Zeros(k - 1))
      \/ /\ k > 0
         /\ r = Incr(q) \o Zeros(k)
         /\ DigitVal(rem[1]) >= 5

\* C5: for an int v, round_to_significant(v) is v below 100, a nearest
\* multiple of 100 from 100, of 1000 from 1000, and from 100000, with L the
\* number of digits of v, a nearest multiple of 10^(L-3), which has at most
\* three significant digits; 324620 gives 325000, 1897 gives 2000, 150 gives
\* 200 and 42 gives 42.  (Violated: 2565000000000000262144 gives
\* 2560000000000000000000, and 2570000000000000000000 is nearer.)
C5_RoundToSignificant ==
  (pc = "returned_round" /\ number.fp = <<>>) =>
    LET v == number.ip
        L == Len(v)
    IN  /\ L <= 2 => ret = v
        /\ L = 3 => NearestMultiple(ret, v, 2)
        /\ L \in {4, 5} => NearestMultiple(ret, v, 3)
        /\ L >= 6 =>
             /\ NearestMultiple(ret, v, L - 3)
             /\ Len(StripTrailingZeros(ret)) <= 3
        /\ v = IntToStr(324620) => ret = IntToStr(325000)
        /\ v = IntToStr(1897) => ret = IntToStr(2000)
        /\ v = IntToStr(150) => ret = IntToStr(200)
        /\ v = IntToStr(42) => ret = IntToStr(42)

\* The word before the match, if any, holds a month name.
LastWordHoldsMonth ==
  LET before_words == split(strip(Preceding))
  IN  /\ before_words # <<>>
      /\ \E month \in months : contains(before_words[Len(before_words)], month)

\* The case of C6: "Jahr" ends the stripped text before the numeral, or the
\* numeral is four digits beginning with 19 or 20 after a word that holds a
\* month name.
YearContext ==
  \/ endswith(strip(Preceding), Jahr)
  \/ /\ Len(group1(text, match)) = 4
     /\ \A i \in 1..4 : group1(text, match)[i] \in Digits
     /\ SubSeq(group1(text, match), 1, 2) \in {<<"1","9">>, <<"2","0">>}
     /\ LastWordHoldsMonth

\* C6: a numeral in a year context is emitted as its whole match, verbatim,
\* and the other numerals of the text are still simplified: "Im Jahr 2024 gab
\* es 1.234 Ereignisse." keeps "2024" and turns "1.234" into "etwa 1.000".
C6_YearVerbatim ==
  /\ (Processed /\ YearContext) => piece = group0(text, match)
  /\ (pc = "returned" /\ raw_text = Year2024Text) => result = Year2024Out

\* "2024" after "Im Jahr" has been appended verbatim, with the word it captured.
C6_Witness ==
  /\ pc = "scan"
  /\ raw_text = Year2024Text
  /\ match # NoMatch
  /\ YearContext
  /\ piece = <<"2","0","2","4"," ","g","a","b">>

\* The text before the numeral does not end in "Jahr " or "Jahre ".
NotAfterJahr ==
  ~(endswith(Preceding, JahrSpace) \/ endswith(Preceding, JahreSpace))

\* C7 as stated: a numeral whose value is in [1900, 2100] and that does not
\* follow "Jahr " or "Jahre " is passed through verbatim.
C7_RangePassedThrough ==
  (Processed /\ InYearRange(PyRound(MatchValue, 0)) /\ NotAfterJahr) =>
    piece = group0(text, match)

\* C7 amended: a value in [1900, 2100] is no ground for passing a numeral
\* through.  Unless the year or date rules hold it back, such a numeral is
\* simplified like any quantity, to "etwa 2000" and its unit, and the range
\* only keeps the thousands separator out of the rendering.
C7_RangeSimplifiedUngrouped ==
  /\ (Simplified /\ InYearRange(PyRound(MatchValue, 0))) =>
       piece = EtwaWith(<<"2","0","0","0">>)
  /\ (pc = "returned" /\ raw_text = Year2025Text) => result = Year2025Out

\* "2018 Ereignisse", with no "Jahr" and no month before it, has been
\* rewritten to "etwa 2000 Ereignisse".
C7_Witness ==
  /\ pc = "returned"
  /\ raw_text = Year2025Text
  /\ Simplified
  /\ InYearRange(PyRound(MatchValue, 0))
  /\ NotAfterJahr
  /\ result = Year2025Out

\* The rendering of the match carries a thousands separator.
Grouped == \E i \in 1..Len(piece) : piece[i] = "."

\* C8: a simplified numeral is rendered with separators exactly when its
\* rounded value is at least 1000 and it does not follow "Jahr " or "Jahre ":
\* the flag "is count" is false for the numerals after "Jahr " or "Jahre " and
\* true for every other one.  (Violated: "Jahre 5000" is rendered "etwa
\* 5.000"; looks_like_year makes its test on stripped text, where it never
\* holds.)
C8_GroupedUnlessAfterJahr ==
  Simplified =>
    (Grouped <=> (Len(round_to_significant(MatchValue)) >= 4 /\ NotAfterJahr))

\* The whitespace-delimited words after the word the numeral is in.
FollowingWords == split(PyFrom(text, WordEnd(text, match.start)))

\* C9 as stated: a numeral is emitted verbatim whenever the first or the
\* second word following it is a month name.
C9_MonthWithinTwoWords ==
  (Processed /\ \E i \in 1..2 : i <= Len(FollowingWords) /\ FollowingWords[i] \in months)
    => piece = group0(text, match)

\* C9 amended: a numeral is emitted verbatim whenever the first word after
\* the word the numeral is in is a month name that lies within the 50
\* characters from the numeral's start; a month name one word further does
\* not preserve it.  "Am 1. Januar 2024 waren es 5.678 Teilnehmer." keeps
\* "1." and "2024" and simplifies "5.678".
C9_MonthNextWord ==
  /\ ( /\ Processed
       /\ FollowingWords # <<>>
       /\ FollowingWords[1] \in months
       /\ LET a == RunEnd(text, WordEnd(text, match.start), Whitespace)
          IN  a + Len(FollowingWords[1]) <= match.start + 50 )
       => piece = group0(text, match)
  /\ (pc = "returned" /\ raw_text = JanuarText) => result = JanuarOut

\* The day "1" of "Am 1. Januar 2024 ..." has been appended verbatim.
C9_Witness ==
  /\ pc = "scan"
  /\ raw_text = JanuarText
  /\ match.start = 3
  /\ FollowingWords[1] \in months
  /\ piece = <<"1">>

\* C10 as stated: below 100 a value with the fraction one half is rounded up,
\* and every other value to its nearest integer.
C10_HalfUp ==
  (pc = "returned_round" /\ Len(number.ip) < 3) =>
    ToInt(ret) = ToInt(number.ip) + (IF BelowHalf(number) THEN 0 ELSE 1)

\* C10 amended: below 100 a value is rounded to its nearest integer, and a
\* value with the fraction exactly one half to the even one of its two
\* neighbours (0,5 to 0; 1,5 to 2; 2,5 to 2).
C10_HalfEven ==
  (pc = "returned_round" /\ Len(number.ip) < 3) =>
    /\ ret = IntToStr(ToInt(ret))
    /\ BelowHalf(number) => ToInt(ret) = ToInt(number.ip)
    /\ (~BelowHalf(number) /\ ~IsHalf(number)) => ToInt(ret) = ToInt(number.ip) + 1
    /\ IsHalf(number) =>
         /\ ToInt(ret) \in {ToInt(number.ip), ToInt(number.ip) + 1}
         /\ ToInt(ret) % 2 = 0

\* 2,5 has been rounded to 2.
C10_Witness ==
  /\ pc = "returned_round"
  /\ number = FromTenths(25)
  /\ ret = <<"2">>

====
